---- MODULE Spec2Model ----
(***************************************************************************)
(* Model of moswb (src/src/main.rs): one pass of EnumWindows over the      *)
(* top-level windows of a desktop, with enum_window_callback classifying   *)
(* each window and moving the ones that are mostly off-screen to (0,0).    *)
(*                                                                         *)
(* A window is what the OS calls of the callback return for its handle.    *)
(* Every output of the program (stdout, stderr) and every state-changing   *)
(* OS call (ShowWindow, SetWindowPos) is an event of the run's trace.      *)
(***************************************************************************)
EXTENDS Integers, Sequences, FiniteSets, TLC

VARIABLES
    pc,          \* "enum" | "callback" | "returned" | "done" ("geom": harness)
    numWindows,  \* number of top-level windows EnumWindows has to deliver
    next,        \* index of the next window EnumWindows hands to the callback
    cur,         \* the last callback invocation: window, result, events
    visits,      \* how many times the callback ran on each window
    trace,       \* events of the run so far, each tagged with its handle
    result,      \* what EnumWindows returned to main
    exitCode,    \* exit code of the process (-1 while running)
    desk,        \* desktop harness: the windows, their z-order, the active one
    grect,       \* geometry harness: the rect under test
    gscreen,     \* geometry harness: the screen size under test
    gout         \* geometry harness: results of the pure functions

vars == <<pc, numWindows, next, cur, visits, trace, result, exitCode, desk,
          grect, gscreen, gout>>

(***************************************************************************)
(* Bounds of the model.                                                    *)
(***************************************************************************)
MaxWindows == 3      \* windows on the desktop
MaxCoord == 3        \* geometry harness: coordinates range over -1..MaxCoord+1
I32Bits == 15        \* bits of the signed integer type that stands for i32
DeskWindows == 2     \* desktop harness: windows on the desktop

(***************************************************************************)
(* Program constants.                                                      *)
(***************************************************************************)
TOP_LEFT_BOUND == 100

Min(a, b) == IF a <= b THEN a ELSE b
Max(a, b) == IF a >= b THEN a ELSE b

(***************************************************************************)
(* 32-bit values.  A u32 is the pair <<hi, lo>> of its 16-bit halves, so   *)
(* that 0x80070005 can be written; an i32 (HRESULT) is an integer.         *)
(***************************************************************************)
U16 == 65536

AsI32(u) == IF u[1] >= U16 \div 2 THEN (u[1] - U16) * U16 + u[2]
            ELSE u[1] * U16 + u[2]

\* HRESULT::from_win32(error: u32):
\*   if error as i32 <= 0 { error } else { (error & 0xFFFF) | (7 << 16) | 0x8000_0000 }
HRESULT_from_win32(u) ==
    IF AsI32(u) <= 0 THEN AsI32(u)
    ELSE AsI32(<<(U16 \div 2) + 7, u[2]>>)

\* const E_ACCESS_DENIED: HRESULT = HRESULT::from_win32(0x80070005);
E_ACCESS_DENIED == HRESULT_from_win32(<<(U16 \div 2) + 7, 5>>)

(***************************************************************************)
(* f32 arithmetic.  `as f32` and the f32 product round to a 24-bit         *)
(* significand (round to nearest, ties to even).  The quotient is kept as  *)
(* the pair <<numerator, denominator>> of f32 values: for integral f32     *)
(* operands the rounded quotient compares with 0.5 and with 1.0 exactly as *)
(* the fraction does, because the operands differ by at least one unit in  *)
(* the last place of the larger one.                                       *)
(***************************************************************************)
F32Mant == 16777216     \* 2^24

RECURSIVE F32Ulp(_)
F32Ulp(n) == IF n < F32Mant THEN 1 ELSE 2 * F32Ulp(n \div 2)

AsF32(i) ==
    LET a == IF i < 0 THEN -i ELSE i
        u == F32Ulp(a)
        q == a \div u
        r == a % u
        up == (2 * r > u) \/ (2 * r = u /\ q % 2 = 1)
        m == IF up THEN (q + 1) * u ELSE q * u
    IN  IF i < 0 THEN -m ELSE m

F32Mul(a, b) == AsF32(a * b)

F32Zero == <<0, 1>>

\* x > 0.5 for the f32 quotient x = <<num, den>>, den > 0
F32GtHalf(x) == 2 * x[1] > x[2]

(***************************************************************************)
(* Signed integers.  i32 is modelled with I32Bits bits: its values are     *)
(* I32Min..I32Max.  A subtraction that leaves the range panics in a build  *)
(* with overflow checks (debug) and wraps in one without (release).        *)
(***************************************************************************)
I32Max == 2 ^ (I32Bits - 1) - 1
I32Min == 0 - I32Max - 1

Wrap(x) == ((x - I32Min) % (2 * I32Max + 2)) + I32Min

\* a - b on i32: the wrapped value, and whether it overflowed
Sub(a, b) == [val |-> Wrap(a - b), ovf |-> (a - b < I32Min \/ a - b > I32Max)]

Builds == {"debug", "release"}

(***************************************************************************)
(* Geometry (pure functions).  A RECT is [left, top, right, bottom].  The  *)
(* result of get_display_percent is the f32 it returns (val) and whether   *)
(* one of the subtractions it executed overflowed (ovf).                   *)
(***************************************************************************)
Rect(l, t, r, b) == [left |-> l, top |-> t, right |-> r, bottom |-> b]

Returns(x) == [val |-> x, ovf |-> FALSE]

\* Faulty variant: it clips the right edge to the screen height.
get_display_percent_swapped(rect, width, height) ==
    LET x_min == Max(rect.left, 0)
        y_min == Max(rect.top, 0)
        x_max == Min(rect.right, height)
        y_max == Min(rect.bottom, height)
        dw == Sub(x_max, x_min)
        dh == Sub(y_max, y_min)
        ow == Sub(rect.right, rect.left)
        oh == Sub(rect.bottom, rect.top)
        display_width == AsF32(dw.val)
        display_height == AsF32(dh.val)
        original_width == AsF32(ow.val)
        original_height == AsF32(oh.val)
    IN  IF x_min >= x_max \/ y_min >= y_max THEN Returns(F32Zero)
        ELSE [ovf |-> dw.ovf \/ dh.ovf \/ ow.ovf \/ oh.ovf,
              val |-> IF original_height <= 0 \/ original_width <= 0 THEN F32Zero
                      ELSE <<F32Mul(display_width, display_height),
                             F32Mul(original_width, original_height)>>]

\* Faulty variant: it returns early only when the clipped rect is empty in
\* both directions.
get_display_percent_and(rect, width, height) ==
    LET x_min == Max(rect.left, 0)
        y_min == Max(rect.top, 0)
        x_max == Min(rect.right, width)
        y_max == Min(rect.bottom, height)
        dw == Sub(x_max, x_min)
        dh == Sub(y_max, y_min)
        ow == Sub(rect.right, rect.left)
        oh == Sub(rect.bottom, rect.top)
        display_width == AsF32(dw.val)
        display_height == AsF32(dh.val)
        original_width == AsF32(ow.val)
        original_height == AsF32(oh.val)
    IN  IF x_min >= x_max /\ y_min >= y_max THEN Returns(F32Zero)
        ELSE [ovf |-> dw.ovf \/ dh.ovf \/ ow.ovf \/ oh.ovf,
              val |-> IF original_height <= 0 \/ original_width <= 0 THEN F32Zero
                      ELSE <<F32Mul(display_width, display_height),
                             F32Mul(original_width, original_height)>>]

get_display_percent(rect, width, height) ==
    LET x_min == Max(rect.left, 0)
        y_min == Max(rect.top, 0)
        x_max == Min(rect.right, width)
        y_max == Min(rect.bottom, height)
        dw == Sub(x_max, x_min)
        dh == Sub(y_max, y_min)
        ow == Sub(rect.right, rect.left)
        oh == Sub(rect.bottom, rect.top)
        display_width == AsF32(dw.val)
        display_height == AsF32(dh.val)
        original_width == AsF32(ow.val)
        original_height == AsF32(oh.val)
    IN  IF x_min >= x_max \/ y_min >= y_max THEN Returns(F32Zero)
        ELSE [ovf |-> dw.ovf \/ dh.ovf \/ ow.ovf \/ oh.ovf,
              val |-> IF original_height <= 0 \/ original_width <= 0 THEN F32Zero
                      ELSE <<F32Mul(display_width, display_height),
                             F32Mul(original_width, original_height)>>]

\* Faulty variant: it excludes the bound itself.
left_top_exclusive(rect) ==
    (rect.left >= 0 /\ rect.left < TOP_LEFT_BOUND)
        /\ (rect.top >= 0 /\ rect.top < TOP_LEFT_BOUND)

left_top(rect) ==
    (rect.left >= 0 /\ rect.left <= TOP_LEFT_BOUND)
        /\ (rect.top >= 0 /\ rect.top <= TOP_LEFT_BOUND)

(***************************************************************************)
(* Window titles.  A title is the sequence of UTF-16 code units the window *)
(* holds; a decoded String is the sequence of its code points.             *)
(***************************************************************************)
IsHighSurrogate(u) == u >= 55296 /\ u <= 56319      \* 0xD800..0xDBFF
IsLowSurrogate(u) == u >= 56320 /\ u <= 57343       \* 0xDC00..0xDFFF

\* String::from_utf16: an unpaired surrogate is an error.
RECURSIVE from_utf16(_)
from_utf16(v) ==
    IF v = <<>> THEN [ok |-> TRUE, s |-> <<>>]
    ELSE IF IsHighSurrogate(v[1]) THEN
        IF Len(v) >= 2 /\ IsLowSurrogate(v[2]) THEN
            LET rest == from_utf16(SubSeq(v, 3, Len(v)))
                c == 65536 + (v[1] - 55296) * 1024 + (v[2] - 56320)
            IN  [ok |-> rest.ok, s |-> IF rest.ok THEN <<c>> \o rest.s ELSE <<>>]
        ELSE [ok |-> FALSE, s |-> <<>>]
    ELSE IF IsLowSurrogate(v[1]) THEN [ok |-> FALSE, s |-> <<>>]
    ELSE
        LET rest == from_utf16(Tail(v))
        IN  [ok |-> rest.ok, s |-> IF rest.ok THEN <<v[1]>> \o rest.s ELSE <<>>]

\* wide_string.iter().position(|pos| *pos == 0): 0 when there is no NUL
null_pos(wide_string) ==
    IF \E i \in 1..Len(wide_string) : wide_string[i] = 0
    THEN CHOOSE i \in 1..Len(wide_string) :
            wide_string[i] = 0 /\ \A j \in 1..(i - 1) : wide_string[j] # 0
    ELSE 0

wide_string_to_string(wide_string) ==
    IF null_pos(wide_string) # 0
    THEN from_utf16(SubSeq(wide_string, 1, null_pos(wide_string) - 1))
    ELSE from_utf16(wide_string)

\* GetWindowTextLengthW, a zeroed buffer of text_length + 1 units,
\* GetWindowTextW copying the title and its terminating NUL into it.
get_window_text(text) ==
    LET text_length == Len(text)
        wide_buffer == [i \in 1..(text_length + 1) |->
                            IF i <= text_length THEN text[i] ELSE 0]
    IN  wide_string_to_string(wide_buffer)

(***************************************************************************)
(* enum_window_callback.  w holds what each OS call returns for the        *)
(* window: IsWindowVisible, IsIconic, the title, GetWindowRect (rectOk and *)
(* rect), GetSystemMetrics (screen), IsZoomed, ShowWindow (showOk) and     *)
(* SetWindowPos (posOk).  The result is the BOOL returned to EnumWindows   *)
(* (1 continue, 0 stop) and the events of the invocation, in order.        *)
(***************************************************************************)
Continue == [ret |-> 1, ev |-> <<>>]
Stop(line) == [ret |-> 0, ev |-> <<line>>]
After(prefix, r) == [ret |-> r.ret, ev |-> prefix \o r.ev]

\* println!, then SetWindowPos(hwnd, None, 0, 0, 0, 0, NOZORDER | NOSIZE | NOACTIVATE)
cb_reposition(w) ==
    After(<<"println", "SetWindowPos">>,
          IF w.posOk THEN Continue ELSE Stop("eprintln SetWindowPos failed"))

\* Faulty variant: it restores whether or not the window is maximized.
cb_restore_always(w) ==
    After(<<"ShowWindow">>,
          IF w.showOk THEN cb_reposition(w)
          ELSE Stop("eprintln ShowWindow failed"))

\* IsZoomed, ShowWindow(hwnd, SW_RESTORE)
cb_restore(w) ==
    IF w.zoomed
    THEN After(<<"ShowWindow">>,
               IF w.showOk THEN cb_reposition(w)
               ELSE Stop("eprintln ShowWindow failed"))
    ELSE cb_reposition(w)

\* get_screen_size, get_display_percent, display_percent > 0.5.  The rect
\* is one GetWindowRect returned: a window's width and height are i32
\* themselves, so no subtraction of get_display_percent overflows on it.
cb_percent(w) ==
    LET display_percent == get_display_percent(w.rect, w.screen[1], w.screen[2]).val
    IN  IF F32GtHalf(display_percent) THEN Continue
        ELSE cb_restore(w)

\* GetWindowRect, rect.left_top()
cb_rect(w) ==
    IF ~w.rectOk THEN Stop("eprintln GetWindowRect failed")
    ELSE IF left_top(w.rect) THEN Continue
    ELSE cb_percent(w)

\* Faulty variant: it queries the rect before it reads the title.
cb_text_rect_first(w) ==
    LET window_text == get_window_text(w.text)
    IN  IF ~w.rectOk THEN Stop("eprintln GetWindowRect failed")
        ELSE IF ~window_text.ok THEN Stop("eprintln Get window text failed")
        ELSE IF window_text.s = <<>> THEN Continue
        ELSE cb_rect(w)

\* get_window_text, window_text.is_empty()
cb_text(w) ==
    LET window_text == get_window_text(w.text)
    IN  IF ~window_text.ok THEN Stop("eprintln Get window text failed")
        ELSE IF window_text.s = <<>> THEN Continue
        ELSE cb_rect(w)

\* Faulty variant: it leaves out the IsIconic gate.
enum_window_callback_no_iconic(w) ==
    IF ~w.visible THEN Continue
    ELSE cb_text(w)

enum_window_callback(w) ==
    IF ~w.visible THEN Continue
    ELSE IF w.iconic THEN Continue
    ELSE cb_text(w)

(***************************************************************************)
(* main: the match on what EnumWindows returned.                           *)
(***************************************************************************)
Ok == [ok |-> TRUE, code |-> 0]
Err(code) == [ok |-> FALSE, code |-> code]

\* Faulty variant: it prints the tip for every error.
main_match_any(r) ==
    IF ~r.ok THEN <<"eprintln Tip: Try running as administrator.">> ELSE <<>>

main_match(r) ==
    IF ~r.ok /\ r.code = E_ACCESS_DENIED
    THEN <<"eprintln Tip: Try running as administrator.">>
    ELSE <<>>

(***************************************************************************)
(* The inputs: what the OS can answer.                                     *)
(***************************************************************************)
\* "", "A", U+10000 as a surrogate pair, a lone high surrogate
Titles == {<<>>, <<65>>, <<55296, 56320>>, <<55296>>}

Screens == {<<400, 300>>, <<1920, 1080>>, <<7680, 4320>>}

\* Corners on both sides of each anchoring bound.
Corners == {<<0, 0>>, <<100, 100>>, <<101, 100>>, <<100, 101>>, <<-1, 0>>, <<0, -1>>}

\* A size that fits a 400 x 300 screen and one that does not.
Sizes == {<<200, 100>>, <<1000, 1000>>}

Rects ==
    {Rect(c[1], c[2], c[1] + z[1], c[2] + z[2]) : c \in Corners, z \in Sizes}
    \cup {
    Rect(50, 50, 50, 50),            \* anchored, empty
    Rect(300, 200, 500, 300),        \* exactly half on a 400 x 300 screen
    Rect(300, 200, 499, 300),        \* just above half
    Rect(300, 200, 450, 300),        \* two thirds
    Rect(300, 200, 500, 400),        \* a quarter
    Rect(-300, -300, -100, -100),    \* off the top-left corner
    Rect(2000, 0, 2500, 400),        \* off the right edge
    Rect(1800, 1000, 2400, 1400),    \* 4% on a 1920 x 1080 screen
    Rect(2844, 1038, 8945, 6241)     \* 15871752 of 31743503 on 7680 x 4320
    }

Windows ==
    [visible : BOOLEAN, iconic : BOOLEAN, text : Titles,
     rectOk : {TRUE}, rect : Rects, screen : Screens,
     zoomed : BOOLEAN, showOk : BOOLEAN, posOk : BOOLEAN]
    \cup
    [visible : BOOLEAN, iconic : BOOLEAN, text : Titles,
     rectOk : {FALSE}, rect : {Rect(0, 0, 0, 0)}, screen : Screens,
     zoomed : BOOLEAN, showOk : BOOLEAN, posOk : BOOLEAN]

\* GetLastError() values: none, ERROR_ACCESS_DENIED, ERROR_INVALID_HANDLE,
\* ERROR_INVALID_WINDOW_HANDLE
Win32Codes == {<<0, 0>>, <<0, 5>>, <<0, 6>>, <<0, 1400>>}

NoWindow ==
    [visible |-> FALSE, iconic |-> FALSE, text |-> <<>>,
     rectOk |-> FALSE, rect |-> Rect(0, 0, 0, 0), screen |-> <<0, 0>>,
     zoomed |-> FALSE, showOk |-> FALSE, posOk |-> FALSE]

NoCall == [h |-> 0, w |-> NoWindow, ret |-> 1, ev |-> <<>>]

Tag(h, ev) == [i \in 1..Len(ev) |-> <<h, ev[i]>>]

Has(ev, op) == \E i \in 1..Len(ev) : ev[i] = op
Count(ev, op) == Cardinality({i \in 1..Len(ev) : ev[i] = op})

GIdle == [done |-> FALSE, percent |-> F32Zero, anchored |-> FALSE,
          build |-> "release", ovf |-> FALSE, panicked |-> FALSE]

(***************************************************************************)
(* The desktop.  A window of the desktop is a window as above together     *)
(* with the rect it returns to when it is restored (normal).  z lists the  *)
(* handles from top to bottom; pre is the desktop as it was when           *)
(* SetWindowPos was last called.                                           *)
(***************************************************************************)
NoDesk == [win |-> <<>>, z |-> <<>>, active |-> 0, run |-> 0, firstOk |-> FALSE,
           pre |-> [win |-> <<>>, z |-> <<>>, active |-> 0]]

ToTop(z, h) == <<h>> \o SelectSeq(z, LAMBDA g : g # h)

\* ShowWindow(hwnd, SW_RESTORE): activates and displays the window; a
\* minimized or maximized window returns to its normal size and position.
SW_RESTORE == "SW_RESTORE"

ShowWindow(d, h, cmd) ==
    IF cmd = SW_RESTORE
    THEN [d EXCEPT !.win[h].zoomed = FALSE,
                   !.win[h].iconic = FALSE,
                   !.win[h].visible = TRUE,
                   !.win[h].rect = IF d.win[h].zoomed \/ d.win[h].iconic
                                   THEN d.win[h].normal ELSE @,
                   !.z = ToTop(@, h),
                   !.active = h]
    ELSE d

\* SetWindowPos(hwnd, hWndInsertAfter, X, Y, cx, cy, uFlags)
SetWindowPos(d, h, a) ==
    LET r == d.win[h].rect
        l == IF "SWP_NOMOVE" \in a.flags THEN r.left ELSE a.x
        t == IF "SWP_NOMOVE" \in a.flags THEN r.top ELSE a.y
        w == IF "SWP_NOSIZE" \in a.flags THEN r.right - r.left ELSE a.cx
        hh == IF "SWP_NOSIZE" \in a.flags THEN r.bottom - r.top ELSE a.cy
        activate == "SWP_NOACTIVATE" \notin a.flags
        raise == "SWP_NOZORDER" \notin a.flags /\ a.after = "HWND_TOP"
    IN  [d EXCEPT !.win[h].rect = Rect(l, t, l + w, t + hh),
                  !.z = IF raise \/ activate THEN ToTop(@, h) ELSE @,
                  !.active = IF activate THEN h ELSE @]

\* Faulty variant: SWP_NOSIZE is missing.
SetWindowPosArgs_resize ==
    [after |-> "HWND_TOP", x |-> 0, y |-> 0, cx |-> 0, cy |-> 0,
     flags |-> {"SWP_NOZORDER", "SWP_NOACTIVATE"}]

\* Faulty variant: SWP_NOMOVE is set as well.
SetWindowPosArgs_nomove ==
    [after |-> "HWND_TOP", x |-> 0, y |-> 0, cx |-> 0, cy |-> 0,
     flags |-> {"SWP_NOZORDER", "SWP_NOSIZE", "SWP_NOMOVE", "SWP_NOACTIVATE"}]

\* SetWindowPos(hwnd, None, 0, 0, 0, 0, SWP_NOZORDER | SWP_NOSIZE | SWP_NOACTIVATE):
\* a null hWndInsertAfter is HWND_TOP
SetWindowPosArgs ==
    [after |-> "HWND_TOP", x |-> 0, y |-> 0, cx |-> 0, cy |-> 0,
     flags |-> {"SWP_NOZORDER", "SWP_NOSIZE", "SWP_NOACTIVATE"}]

\* The effect on the desktop of the calls the callback made on window h.
Apply(d, h, ev) ==
    LET w == d.win[h]
        d1 == IF Has(ev, "ShowWindow") /\ w.showOk
              THEN ShowWindow(d, h, SW_RESTORE) ELSE d
        snap == [win |-> d1.win, z |-> d1.z, active |-> d1.active]
        d2 == IF Has(ev, "SetWindowPos") /\ w.posOk
              THEN SetWindowPos(d1, h, SetWindowPosArgs) ELSE d1
    IN  IF Has(ev, "SetWindowPos") THEN [d2 EXCEPT !.pre = snap] ELSE d2

DeskScreen == <<1920, 1080>>

DeskWindow(vis, ico, text, rect, zoomed, normal, ok) ==
    [visible |-> vis, iconic |-> ico, text |-> text, rectOk |-> TRUE,
     rect |-> rect, screen |-> DeskScreen, zoomed |-> zoomed,
     showOk |-> ok, posOk |-> ok, normal |-> normal]

DeskKinds == {
    \* off the right edge
    DeskWindow(TRUE, FALSE, <<65>>, Rect(2000, 0, 2500, 400), FALSE,
               Rect(2000, 0, 2500, 400), TRUE),
    \* maximized on a monitor that is gone
    DeskWindow(TRUE, FALSE, <<65>>, Rect(1912, -8, 3848, 1088), TRUE,
               Rect(2100, 100, 2600, 500), TRUE),
    \* anchored, mostly off-screen
    DeskWindow(TRUE, FALSE, <<65>>, Rect(100, 100, 3100, 3100), FALSE,
               Rect(100, 100, 3100, 3100), TRUE),
    \* on-screen
    DeskWindow(TRUE, FALSE, <<65>>, Rect(101, 100, 301, 200), FALSE,
               Rect(101, 100, 301, 200), TRUE),
    \* hidden, minimized, untitled: each off-screen
    DeskWindow(FALSE, FALSE, <<65>>, Rect(2000, 0, 2500, 400), FALSE,
               Rect(2000, 0, 2500, 400), TRUE),
    DeskWindow(TRUE, TRUE, <<65>>, Rect(-3000, -3000, -2840, -2972), FALSE,
               Rect(2000, 0, 2500, 400), TRUE),
    DeskWindow(TRUE, FALSE, <<>>, Rect(2000, 0, 2500, 400), FALSE,
               Rect(2000, 0, 2500, 400), TRUE),
    \* a window that refuses ShowWindow and SetWindowPos
    DeskWindow(TRUE, FALSE, <<65>>, Rect(2000, 0, 2500, 400), FALSE,
               Rect(2000, 0, 2500, 400), FALSE),
    \* a title that does not decode
    DeskWindow(TRUE, FALSE, <<55296>>, Rect(2000, 0, 2500, 400), FALSE,
               Rect(2000, 0, 2500, 400), TRUE)
    }

(***************************************************************************)
(* The run: main calls EnumWindows, which calls the callback once per      *)
(* window until a callback returns 0, and main matches on its result.      *)
(***************************************************************************)
Init ==
    /\ pc = "enum"
    /\ numWindows \in 0..MaxWindows
    /\ next = 1
    /\ cur = NoCall
    /\ visits = [h \in 1..MaxWindows |-> 0]
    /\ trace = <<>>
    /\ result = Ok
    /\ exitCode = -1
    /\ desk = NoDesk
    /\ grect = Rect(0, 0, 0, 0)
    /\ gscreen = <<0, 0>>
    /\ gout = GIdle

\* EnumWindows hands the next window to the callback, which runs to its
\* return.
Callback ==
    /\ pc = "enum"
    /\ next <= numWindows
    /\ \E w \in Windows :
          LET r == enum_window_callback(w)
          IN  /\ cur' = [h |-> next, w |-> w, ret |-> r.ret, ev |-> r.ev]
              /\ trace' = trace \o Tag(next, r.ev)
    /\ visits' = [visits EXCEPT ![next] = @ + 1]
    /\ next' = next + 1
    /\ pc' = "callback"
    /\ UNCHANGED <<numWindows, result, exitCode, desk, grect, gscreen, gout>>

\* The callback returned TRUE: EnumWindows goes on.  Nothing of the window
\* is kept beyond its callback invocation.
EnumContinue ==
    /\ pc = "callback"
    /\ cur.ret = 1
    /\ cur' = NoCall
    /\ pc' = "enum"
    /\ UNCHANGED <<numWindows, next, visits, trace, result, exitCode, desk, grect, gscreen, gout>>

\* The callback returned FALSE: EnumWindows stops and returns FALSE, and
\* the error is built from the thread's last-error code.
EnumStop ==
    /\ pc = "callback"
    /\ cur.ret = 0
    /\ \E e \in Win32Codes : result' = Err(HRESULT_from_win32(e))
    /\ pc' = "returned"
    /\ UNCHANGED <<numWindows, next, cur, visits, trace, exitCode, desk, grect, gscreen, gout>>

\* Every window has been delivered: EnumWindows returns TRUE.
EnumWindowsOk ==
    /\ pc = "enum"
    /\ next > numWindows
    /\ pc' = "returned"
    /\ result' = Ok
    /\ UNCHANGED <<numWindows, next, cur, visits, trace, exitCode, desk, grect, gscreen, gout>>

\* The enumeration itself fails before any window is delivered.
EnumWindowsFails ==
    /\ pc = "enum"
    /\ next = 1
    /\ \E e \in Win32Codes \ {<<0, 0>>} : result' = Err(HRESULT_from_win32(e))
    /\ pc' = "returned"
    /\ UNCHANGED <<numWindows, next, cur, visits, trace, exitCode, desk, grect, gscreen, gout>>

\* main matches on the result and returns: the process exits with 0.
MainMatch ==
    /\ pc = "returned"
    /\ trace' = trace \o Tag(0, main_match(result))
    /\ exitCode' = 0
    /\ pc' = "done"
    /\ UNCHANGED <<numWindows, next, cur, visits, result, desk, grect, gscreen, gout>>

Next ==
    \/ Callback
    \/ EnumContinue
    \/ EnumStop
    \/ EnumWindowsOk
    \/ EnumWindowsFails
    \/ MainMatch

Spec == Init /\ [][Next]_vars

(***************************************************************************)
(* The geometry harness: get_display_percent and left_top applied to every *)
(* rect and screen size of a small grid.                                   *)
(***************************************************************************)
GCoords == (0 - 1)..(MaxCoord + 1) \cup {I32Min, I32Max}
GSizes == (0 - 1)..MaxCoord \cup {I32Max}

GInit ==
    /\ pc = "geom"
    /\ numWindows = 0
    /\ next = 1
    /\ cur = NoCall
    /\ visits = [h \in 1..MaxWindows |-> 0]
    /\ trace = <<>>
    /\ result = Ok
    /\ exitCode = -1
    /\ desk = NoDesk
    /\ grect \in [left : GCoords, top : GCoords, right : GCoords, bottom : GCoords]
    /\ gscreen \in GSizes \X GSizes
    /\ gout = GIdle

\* The functions are applied in a debug or in a release build; a
\* subtraction overflow panics in the former and no value is returned.
Measure ==
    /\ pc = "geom"
    /\ ~gout.done
    /\ \E b \in Builds :
          LET r == get_display_percent(grect, gscreen[1], gscreen[2])
              panic == r.ovf /\ b = "debug"
          IN  gout' = [done |-> TRUE,
                       percent |-> IF panic THEN F32Zero ELSE r.val,
                       anchored |-> left_top(grect),
                       build |-> b, ovf |-> r.ovf, panicked |-> panic]
    /\ UNCHANGED <<pc, numWindows, next, cur, visits, trace, result, exitCode, desk,
                   grect, gscreen>>

GNext == Measure

SpecGeom == GInit /\ [][GNext]_vars

(***************************************************************************)
(* The desktop harness: the program runs on a desktop of DeskWindows       *)
(* windows, its calls change the desktop, and it is run a second time on   *)
(* the desktop the first run left.                                         *)
(***************************************************************************)
DInit ==
    /\ pc = "enum"
    /\ numWindows = DeskWindows
    /\ next = 1
    /\ cur = NoCall
    /\ visits = [h \in 1..MaxWindows |-> 0]
    /\ trace = <<>>
    /\ result = Ok
    /\ exitCode = -1
    /\ \E win \in [1..DeskWindows -> DeskKinds], a \in 1..DeskWindows :
          LET z == [i \in 1..DeskWindows |-> i]
          IN  desk = [win |-> win, z |-> z, active |-> a, run |-> 1,
                      firstOk |-> FALSE,
                      pre |-> [win |-> win, z |-> z, active |-> a]]
    /\ grect = Rect(0, 0, 0, 0)
    /\ gscreen = <<0, 0>>
    /\ gout = GIdle

\* EnumWindows hands the next window of the desktop to the callback; the
\* calls of the callback take effect on the desktop.
DCallback ==
    /\ pc = "enum"
    /\ next <= numWindows
    /\ LET w == desk.win[next]
           r == enum_window_callback(w)
       IN  /\ cur' = [h |-> next, w |-> w, ret |-> r.ret, ev |-> r.ev]
           /\ trace' = trace \o Tag(next, r.ev)
           /\ desk' = Apply(desk, next, r.ev)
    /\ visits' = [visits EXCEPT ![next] = @ + 1]
    /\ next' = next + 1
    /\ pc' = "callback"
    /\ UNCHANGED <<numWindows, result, exitCode, grect, gscreen, gout>>

\* The program is started again on the desktop as the first run left it.
SecondRun ==
    /\ pc = "done"
    /\ desk.run = 1
    /\ desk' = [desk EXCEPT !.run = 2, !.firstOk = result.ok]
    /\ pc' = "enum"
    /\ next' = 1
    /\ cur' = NoCall
    /\ visits' = [h \in 1..MaxWindows |-> 0]
    /\ trace' = <<>>
    /\ result' = Ok
    /\ exitCode' = -1
    /\ UNCHANGED <<numWindows, grect, gscreen, gout>>

DNext ==
    \/ DCallback
    \/ EnumContinue
    \/ EnumStop
    \/ EnumWindowsOk
    \/ EnumWindowsFails
    \/ MainMatch
    \/ SecondRun

SpecDesk == DInit /\ [][DNext]_vars

(***************************************************************************)
(* Vocabulary of the properties.                                           *)
(***************************************************************************)

\* the events of the run that belong to handle h (0: main itself)
EventsOf(h) ==
    LET RECURSIVE pick(_)
        pick(t) == IF t = <<>> THEN <<>>
                   ELSE IF t[1][1] = h THEN <<t[1][2]>> \o pick(Tail(t))
                   ELSE pick(Tail(t))
    IN  pick(trace)

Handles == 1..numWindows
Visited == next - 1
Called == pc = "callback"

TextFailed(ev) == Has(ev, "eprintln Get window text failed")
RectFailed(ev) == Has(ev, "eprintln GetWindowRect failed")
ShowFailed(ev) == Has(ev, "eprintln ShowWindow failed")
PosFailed(ev) == Has(ev, "eprintln SetWindowPos failed")
Tip == "eprintln Tip: Try running as administrator."

\* The area of a rect and of its part on the screen, in integers.
OwnArea(r) == (r.right - r.left) * (r.bottom - r.top)
OverlapArea(r, scr) ==
    LET w == Min(r.right, scr[1]) - Max(r.left, 0)
        h == Min(r.bottom, scr[2]) - Max(r.top, 0)
    IN  IF w <= 0 \/ h <= 0 THEN 0 ELSE w * h

Anchored(r) == 0 <= r.left /\ r.left <= 100 /\ 0 <= r.top /\ r.top <= 100

\* the title decodes to a non-empty string
Titled(w) == w.text \in {<<65>>, <<55296, 56320>>}

\* the window reaches the anchoring gate: it is visible, not minimized,
\* titled and its rect was read
AtAnchorGate(w) == w.visible /\ ~w.iconic /\ Titled(w) /\ w.rectOk
AtPercentGate(w) == AtAnchorGate(w) /\ ~Anchored(w.rect)
Eligible(w) == AtPercentGate(w) /\ 2 * OverlapArea(w.rect, w.screen) <= OwnArea(w.rect)

(***************************************************************************)
(* C1.  Processing isolation: if the restore or the reposition of a window *)
(* fails, the failure is logged and every window enumerated after it is    *)
(* still evaluated; the scan is not aborted.                               *)
(***************************************************************************)
C1_ProcessingIsolation ==
    (pc = "done" /\ \E h \in Handles : ShowFailed(EventsOf(h)) \/ PosFailed(EventsOf(h)))
        => Visited = numWindows

(***************************************************************************)
(* C2.  A rect-query failure is logged, the window gets no restore and no  *)
(* reposition, and the scan goes on to the remaining windows.              *)
(***************************************************************************)
C2_RectFailureSkipsWindow ==
    pc = "done" =>
        \A h \in Handles :
            RectFailed(EventsOf(h)) =>
                /\ ~Has(EventsOf(h), "ShowWindow")
                /\ ~Has(EventsOf(h), "SetWindowPos")
                /\ Visited = numWindows

(***************************************************************************)
(* C3.  A title that does not decode is logged, the window gets no restore *)
(* and no reposition, and the remaining windows are still processed.       *)
(***************************************************************************)
C3_TextFailureSkipsWindow ==
    pc = "done" =>
        \A h \in Handles :
            TextFailed(EventsOf(h)) =>
                /\ ~Has(EventsOf(h), "ShowWindow")
                /\ ~Has(EventsOf(h), "SetWindowPos")
                /\ Visited = numWindows

(***************************************************************************)
(* C4.  An error returned by the enumeration call, whatever its code, is   *)
(* surfaced: the run writes a message or exits with a non-zero code.       *)
(***************************************************************************)
C4_EnumFailureSurfaced ==
    (pc = "done" /\ ~result.ok) => (trace # <<>> \/ exitCode # 0)

(***************************************************************************)
(* C5.  The tip to run elevated is printed when the enumeration call fails *)
(* with the access-denied code 0x80070005 (-2147024891 as an i32), once,   *)
(* and never for a success or for a failure with another code.             *)
(***************************************************************************)
C5_AccessDeniedHint ==
    LET tips == Count(EventsOf(0), Tip)
    IN  /\ \A h \in Handles : ~Has(EventsOf(h), Tip)
        /\ pc # "done" => tips = 0
        /\ pc = "done" =>
              tips = IF ~result.ok /\ result.code = -2147024891 THEN 1 ELSE 0

C5_Witness ==
    pc = "done" /\ ~result.ok /\ result.code = -2147024891 /\ Has(EventsOf(0), Tip)

(***************************************************************************)
(* C6.  A window that is not visible, or is minimized, or has an empty     *)
(* title is left untouched, whatever its rect and maximized flag: no       *)
(* restore, no reposition, no output, and the callback tells EnumWindows   *)
(* to continue.                                                            *)
(***************************************************************************)
C6_SkipGatesUntouched ==
    (Called /\ (~cur.w.visible \/ cur.w.iconic \/ cur.w.text = <<>>))
        => (cur.ev = <<>> /\ cur.ret = 1 /\ EventsOf(cur.h) = <<>>)

C6_Witness ==
    /\ Called /\ cur.w.visible /\ cur.w.iconic /\ Titled(cur.w)
    /\ cur.w.rectOk /\ cur.w.rect = Rect(2000, 0, 2500, 400) /\ cur.w.zoomed
    /\ cur.ev = <<>> /\ cur.ret = 1

C8_VisibilityThreshold ==
    (Called /\ AtPercentGate(cur.w)) =>
        IF 2 * OverlapArea(cur.w.rect, cur.w.screen) > OwnArea(cur.w.rect)
        THEN cur.ev = <<>> /\ cur.ret = 1
        ELSE cur.ev # <<>> /\ cur.ev[1] = (IF cur.w.zoomed THEN "ShowWindow" ELSE "println")

(***************************************************************************)
(* C9.  An eligible window for which no OS call fails gets exactly one     *)
(* reposition and exactly one output line; it gets a restore if and only   *)
(* if it is maximized, once, and before the reposition.                    *)
(***************************************************************************)
C9_Remediation ==
    (Called /\ Eligible(cur.w) /\ (cur.w.zoomed => cur.w.showOk) /\ cur.w.posOk) =>
        /\ Count(cur.ev, "SetWindowPos") = 1
        /\ Count(cur.ev, "println") = 1
        /\ Count(cur.ev, "ShowWindow") = (IF cur.w.zoomed THEN 1 ELSE 0)
        /\ Len(cur.ev) = (IF cur.w.zoomed THEN 3 ELSE 2)
        /\ cur.w.zoomed => (cur.ev[1] = "ShowWindow")
        /\ cur.ret = 1

C9_Witness ==
    /\ Called /\ Eligible(cur.w) /\ cur.w.zoomed /\ cur.w.showOk /\ cur.w.posOk
    /\ cur.w.rect = Rect(2000, 0, 2500, 400) /\ cur.w.screen = <<1920, 1080>>
    /\ cur.ev = <<"ShowWindow", "println", "SetWindowPos">>

(***************************************************************************)
(* C10.  For a screen of positive width W and height H and a rect inside   *)
(* [0,W] x [0,H], the display percent lies in [0,1], and it is exactly 1   *)
(* for the rect (0,0,W,H).                                                 *)
(***************************************************************************)
InsideScreen(r, scr) ==
    /\ 0 <= r.left /\ r.left <= r.right /\ r.right <= scr[1]
    /\ 0 <= r.top /\ r.top <= r.bottom /\ r.bottom <= scr[2]

C10_PercentRange ==
    (gout.done /\ gscreen[1] > 0 /\ gscreen[2] > 0 /\ InsideScreen(grect, gscreen)) =>
        /\ gout.percent[2] > 0
        /\ 0 <= gout.percent[1] /\ gout.percent[1] <= gout.percent[2]
        /\ grect = Rect(0, 0, gscreen[1], gscreen[2]) => gout.percent[1] = gout.percent[2]

C10_Witness ==
    /\ gout.done /\ gscreen = <<3, 2>> /\ grect = Rect(0, 0, 3, 2)
    /\ gout.percent[1] = gout.percent[2] /\ gout.percent[1] = 6

(***************************************************************************)
(* C11.  The display percent is exactly 0, and nothing is divided by zero, *)
(* for every rect whose area (right-left)*(bottom-top) is <= 0, for every  *)
(* rect entirely outside the screen and for every screen whose width or    *)
(* height is not positive; a rect with both dimensions negative, whose     *)
(* product is positive, gives 0 as well.                                   *)
(***************************************************************************)
AreaNotPositive(r) ==
    \/ r.right = r.left
    \/ r.bottom = r.top
    \/ (r.right < r.left) # (r.bottom < r.top)

OutsideScreen(r, scr) ==
    r.right <= 0 \/ r.bottom <= 0 \/ r.left >= scr[1] \/ r.top >= scr[2]

C11_DegenerateZero ==
    gout.done =>
        /\ gout.percent[2] > 0
        /\ (\/ AreaNotPositive(grect)
            \/ (grect.right < grect.left /\ grect.bottom < grect.top)
            \/ OutsideScreen(grect, gscreen)
            \/ gscreen[1] <= 0
            \/ gscreen[2] <= 0)
              => (gout.percent[1] = 0 /\ ~gout.ovf /\ ~gout.panicked)

C11_Witness ==
    /\ gout.done /\ grect = Rect(1, 1, 1, 3) /\ gscreen = <<3, 3>>
    /\ gout.percent[1] = 0 /\ gout.percent[2] > 0

(***************************************************************************)
(* C17.  For every rect with coordinates of the whole signed range and     *)
(* every screen size, the subtractions right-left, bottom-top, x_max-x_min *)
(* and y_max-y_min stay within the signed range, so that the function      *)
(* always returns a value.                                                 *)
(***************************************************************************)
C17_NoOverflow ==
    gout.done => (~gout.ovf /\ ~gout.panicked)

(***************************************************************************)
(* C12.  In every run whose enumeration starts, the callback runs exactly  *)
(* once on every window of the enumerated sequence, and no window gets     *)
(* more than one restore or more than one reposition.                      *)
(***************************************************************************)
C12_VisitedExactlyOnce ==
    (pc = "done" /\ (result.ok \/ Visited >= 1)) =>
        \A h \in Handles :
            /\ visits[h] = 1
            /\ Count(EventsOf(h), "ShowWindow") <= 1
            /\ Count(EventsOf(h), "SetWindowPos") <= 1

(***************************************************************************)
(* C13.  The gates are evaluated in order and the first one that matches   *)
(* decides: visible, not minimized, title read and non-empty, rect query,  *)
(* anchoring, display percent, maximized flag.  A title or rect failure is *)
(* logged only for a window that passed every earlier gate; an invisible   *)
(* or minimized window whose title or rect query would fail is skipped     *)
(* silently and the enumeration continues.                                 *)
(***************************************************************************)
Decodes(w) == w.text # <<55296>>
Silent == cur.ev = <<>> /\ cur.ret = 1
Logged(line) == cur.ev = <<line>> /\ cur.ret = 0

C13_GateOrder ==
    Called =>
        LET w == cur.w
        IN  IF ~w.visible THEN Silent
            ELSE IF w.iconic THEN Silent
            ELSE IF ~Decodes(w) THEN Logged("eprintln Get window text failed")
            ELSE IF w.text = <<>> THEN Silent
            ELSE IF ~w.rectOk THEN Logged("eprintln GetWindowRect failed")
            ELSE IF Anchored(w.rect) THEN Silent
            ELSE IF F32GtHalf(get_display_percent(w.rect, w.screen[1], w.screen[2]).val)
                 THEN Silent
            ELSE cur.ev # <<>> /\ (cur.ev[1] = "ShowWindow") = w.zoomed

C13_Witness ==
    /\ Called /\ cur.w.visible /\ cur.w.iconic
    /\ ~Decodes(cur.w) /\ ~cur.w.rectOk
    /\ Silent

(***************************************************************************)
(* C15.  A window gets a block on standard output if and only if its       *)
(* reposition was applied, so the number of blocks equals the number of    *)
(* windows repositioned, also in runs where a restore or reposition fails. *)
(***************************************************************************)
Repositioned(h) == Has(EventsOf(h), "SetWindowPos") /\ ~PosFailed(EventsOf(h))

C15_BlockPerRemediated ==
    pc = "done" =>
        /\ \A h \in Handles : Has(EventsOf(h), "println") <=> Repositioned(h)
        /\ Cardinality({h \in Handles : Has(EventsOf(h), "println")})
              = Cardinality({h \in Handles : Repositioned(h)})

\* The callback called SetWindowPos on the window it was handed.
PosCalled == Called /\ Has(cur.ev, "SetWindowPos")
Width(r) == r.right - r.left
Height(r) == r.bottom - r.top

\* C14: the reposition moves the top-left corner of the processed window to
\* (0,0) and changes nothing else: the window keeps its width and height and
\* every other attribute, the z-order and the active window stay as they
\* were, and no other window is modified; a reposition that fails changes
\* nothing at all.
C14_RepositionFrame ==
    PosCalled =>
        LET h == cur.h
            before == desk.pre.win[h]
            after == desk.win[h]
        IN  /\ desk.z = desk.pre.z
            /\ desk.active = desk.pre.active
            /\ \A g \in 1..DeskWindows : g # h => desk.win[g] = desk.pre.win[g]
            /\ IF cur.w.posOk
               THEN /\ after.rect.left = 0
                    /\ after.rect.top = 0
                    /\ Width(after.rect) = Width(before.rect)
                    /\ Height(after.rect) = Height(before.rect)
                    /\ after = [before EXCEPT !.rect = after.rect]
               ELSE after = before

C14_Witness ==
    /\ PosCalled
    /\ cur.w.posOk
    /\ desk.pre.win[cur.h].rect = Rect(2100, 100, 2600, 500)
    /\ desk.win[cur.h].rect = Rect(0, 0, 500, 400)
    /\ desk.active # desk.pre.z[Len(desk.pre.z)]
    /\ cur.h = 2

\* C16: a window that was repositioned has its top-left corner at (0,0) and
\* is therefore anchored; a second run right after a failure-free first run
\* issues no restore, no reposition and no log line for any window.
C16_Idempotent ==
    /\ (PosCalled /\ cur.w.posOk) =>
          /\ desk.win[cur.h].rect.left = 0
          /\ desk.win[cur.h].rect.top = 0
          /\ left_top(desk.win[cur.h].rect)
    /\ (desk.run = 2 /\ desk.firstOk) =>
          \A h \in 1..DeskWindows :
              /\ EventsOf(h) = <<>>
              /\ (Called /\ cur.h = h) => cur.ev = <<>> /\ cur.ret = 1

C16_Witness ==
    /\ desk.run = 2
    /\ desk.firstOk
    /\ pc = "done"
    /\ result.ok
    /\ \A h \in 1..DeskWindows : visits[h] = 1
    /\ \E h \in 1..DeskWindows : desk.win[h].rect = Rect(0, 0, 500, 400)

====
